---- MODULE Spec2Model ----
(***************************************************************************)
(* Model of ck::tensor_operation::host::ReferenceLayernorm                 *)
(* (library/include/ck/library/reference_tensor_operation/cpu/             *)
(*  reference_layernorm.hpp).                                              *)
(*                                                                         *)
(* Numbers.  The operator is a template over six numeric types.  The model *)
(* instantiates them as fixed-point formats: a value of a type is an       *)
(* integer mantissa, and one mantissa unit of the type is worth `Step`     *)
(* units of ComputeDataType.  ComputeDataType itself has One units per 1.0.*)
(* A conversion between two types rescales the mantissa and rounds to the  *)
(* nearest representable value, so a narrowing conversion loses            *)
(* information and a widening one changes the mantissa.  Every arithmetic  *)
(* operation of ComputeDataType rounds its exact result to the nearest     *)
(* ComputeDataType value.  Overflow, infinities and NaN are not modelled;  *)
(* NoNaN below states that no modelled run produces one.                   *)
(*                                                                         *)
(* Memory.  The caller owns six tensors (mem).  The Argument holds copies  *)
(* of three of them and references (names of mem entries) to the other     *)
(* three.                                                                  *)
(***************************************************************************)
EXTENDS Integers, Sequences, FiniteSets, TLC

\* ---------------------------------------------------------------- bounds
MaxM == 2          \* largest number of rows
MaxN == 2          \* largest number of columns
MaxRuns == 2       \* Invoker::Run calls per behaviour
MaxWrites == 1     \* caller writes to its own tensors per behaviour
MaxRank == 3       \* longest lengths vector offered to IsSupportedArgument
MaxDims == 2       \* longest reduceDims vector offered to IsSupportedArgument
MaxAxis == 2       \* largest axis index / extent in a shape descriptor

\* ------------------------------------------------- numeric instantiation
One == 16          \* ComputeDataType: mantissa units per 1.0
XStep == 4         \* XDataType: ComputeDataType units per mantissa unit
GammaStep == 1     \* GammaDataType
BetaStep == 1      \* BetaDataType
YStep == XStep     \* YDataType (the same type as XDataType)
SaveStep == 2      \* SaveMeanInvStdDataType

\* values the caller stores in its tensors (mantissas of the tensor's type)
XVals == {-2, 3}
GammaVals == {16, 18}
BetaVals == {0, 3}
CallerBeta == 3    \* the shift of the caller of SpecCaller
EpsVals == {1, 4}
CallerEps == 1     \* the epsilon of the caller of SpecCaller
Junk == 99         \* prior content of the output tensors
Scribble == 2      \* value the caller writes over a tensor of its own

\* element-wise operations the caller may inject as YElementwiseOperation
Ops == {"PassThrough", "UnarySquare"}

\* ------------------------------------------------------------ arithmetic
\* a / b rounded to the nearest integer (b > 0)
RoundDiv(a, b) == (2 * a + b) \div (2 * b)

\* ck::type_convert<To>(v) for a value v of a type with step `from`
TypeConvert(from, to, v) == RoundDiv(v * from, to)

\* ComputeDataType product
Mul(a, b) == RoundDiv(a * b, One)

\* ck::math::sqrt on ComputeDataType (v >= 0)
Sqrt(v) == CHOOSE r \in 0..(v * One + 1) : r * r <= v * One /\ (r + 1) * (r + 1) > v * One

\* static_cast<ComputeDataType>(1) / d
Recip(d) == RoundDiv(One * One, d)

\* y_elementwise_op_(y, x): the value left in y
ApplyOp(op, v) == IF op = "UnarySquare" THEN Mul(v, v) ELSE v

\* --------------------------------------------------------------- tensors
Rows(M) == 0..(M - 1)
Cols(N) == 0..(N - 1)
Matrix(M, N, S) == [Rows(M) -> [Cols(N) -> S]]
Vector(N, S) == [Cols(N) -> S]
Fill(M, N, v) == [r \in Rows(M) |-> [c \in Cols(N) |-> v]]
FillVec(N, v) == [c \in Cols(N) |-> v]

\* Tensor<T>(const Tensor<FromT>&): element-wise conversion of a copy
CopyAsType(from, to, t) == [c \in DOMAIN t |-> TypeConvert(from, to, t[c])]

VARIABLES
    mem,        \* the caller's tensors: xbuf, gbuf, bbuf, ybuf, mbuf, sbuf
    arg,        \* the Argument
    supported,  \* last answer of IsSupportedArgument: "unknown", "yes", "no"
    pc,         \* position of the caller / of Invoker::Run
    M, N,       \* Run: locals M and N
    m, n,       \* Run: loop counters
    mean, var,  \* Run: local tensors mean and var
    divisor,    \* Run: local divisor
    finalised,  \* history: rows whose statistics lines 94-95 have completed
    written,    \* history: output cells stored to by the current Run
    ctor,       \* history: the caller's tensors as passed to the constructor
    prev,       \* history: argument and results of the previous completed Run
    runs,       \* number of completed Run calls
    argRuns,    \* number of completed Run calls on the current Argument
    writes      \* number of caller writes

vars == <<mem, arg, supported, pc, M, N, m, n, mean, var, divisor,
          finalised, written, ctor, prev, runs, argRuns, writes>>

runLocals == <<M, N, m, n, mean, var, divisor, finalised, written>>
history == <<ctor, prev, runs, argRuns, writes>>

\* ------------------------------------------------------------- Argument
\* Argument::Argument (lines 36-57) with the member types of lines 59-68:
\* x_m_n_, gamma_n_ and beta_n_ are all Tensor<XDataType> held by value,
\* y_m_n_, save_mean_m_ and save_inv_std_m_ are references.
NewArgument(x_m_n, gamma_n, beta_n, y_m_n, save_mean_m, save_inv_std_m, y_elementwise_op, lengths, reduceDims, epsilon) ==
    [live |-> TRUE,
     x |-> x_m_n,
     gamma |-> CopyAsType(GammaStep, XStep, gamma_n),
     beta |-> CopyAsType(BetaStep, XStep, beta_n),
     y |-> y_m_n,
     save_mean |-> save_mean_m,
     save_inv_std |-> save_inv_std_m,
     op |-> y_elementwise_op,
     lengths |-> lengths,
     reduceDims |-> reduceDims,
     epsilon |-> epsilon]

NoArgument ==
    [live |-> FALSE, x |-> <<>>, gamma |-> <<>>, beta |-> <<>>,
     y |-> "ybuf", save_mean |-> "mbuf", save_inv_std |-> "sbuf",
     op |-> "PassThrough", lengths |-> <<>>, reduceDims |-> <<>>,
     epsilon |-> 0]

\* mutant of IsSupported: the test of line 144 is missing
IsSupported_AnyAxis(a) ==
    IF Len(a.lengths) # 2 THEN FALSE
    ELSE IF Len(a.reduceDims) # 1 THEN FALSE
    ELSE TRUE

\* IsSupportedArgument (lines 133-148)
IsSupported(a) ==
    IF Len(a.lengths) # 2 THEN FALSE
    ELSE IF Len(a.reduceDims) # 1 THEN FALSE
    ELSE IF a.reduceDims[1] # 1 THEN FALSE
    ELSE TRUE

\* mutant of ArgX: x_m_n_ is a reference to the caller's tensor
ArgX_ByReference(r, c) == mem.xbuf[r][c]

\* arg.x_m_n_(r, c), arg.gamma_n_(c), arg.beta_n_(c) as Run reads them
ArgX(r, c) == arg.x[r][c]
ArgGamma(r, c) == arg.gamma[c]
ArgBeta(r, c) == arg.beta[c]

\* mutant of YVal: the element-wise operation is applied a second time
YVal_OpTwice(r, c) ==
    LET x_val == TypeConvert(XStep, 1, ArgX(r, c))
        gamma_val == TypeConvert(XStep, 1, ArgGamma(r, c))
        beta_val == TypeConvert(XStep, 1, ArgBeta(r, c))
        y1 == Mul(x_val - mean[r], divisor)
        y2 == Mul(y1, gamma_val) + beta_val
    IN ApplyOp(arg.op, ApplyOp(arg.op, y2))

\* lines 105-110: the value of y_val when line 111 stores it
YVal(r, c) ==
    LET x_val == TypeConvert(XStep, 1, ArgX(r, c))
        gamma_val == TypeConvert(XStep, 1, ArgGamma(r, c))
        beta_val == TypeConvert(XStep, 1, ArgBeta(r, c))
        y1 == Mul(x_val - mean[r], divisor)
        y2 == Mul(y1, gamma_val) + beta_val
    IN ApplyOp(arg.op, y2)

\* the three output tensors, restricted to the declared shape
OutY == [r \in Rows(arg.lengths[1]) |->
            [c \in Cols(arg.lengths[2]) |-> mem[arg.y][r][c]]]
OutMean == [r \in Rows(arg.lengths[1]) |-> mem[arg.save_mean][r]]
OutInvStd == [r \in Rows(arg.lengths[1]) |-> mem[arg.save_inv_std][r]]

\* ------------------------------------------------------------------ Init
NoPrev == [live |-> FALSE, arg |-> NoArgument, y |-> <<>>, mean |-> <<>>,
           invstd |-> <<>>]
NoCtor == [x |-> <<>>, gamma |-> <<>>, beta |-> <<>>]

InitLocals ==
    /\ M = 0 /\ N = 0 /\ m = 0 /\ n = 0
    /\ mean = <<>> /\ var = <<>> /\ divisor = 0
    /\ finalised = {}
    /\ written = {}

Init ==
    /\ \E M0 \in 0..MaxM, N0 \in 1..MaxN :
         \E x \in Matrix(M0, N0, XVals), g \in Vector(N0, GammaVals),
            b \in Vector(N0, BetaVals) :
              mem = [xbuf |-> x, gbuf |-> g, bbuf |-> b,
                     ybuf |-> Fill(MaxM, MaxN, Junk),
                     mbuf |-> FillVec(MaxM, Junk),
                     sbuf |-> FillVec(MaxM, Junk)]
    /\ arg = NoArgument
    /\ supported = "unknown"
    /\ pc = "caller"
    /\ InitLocals
    /\ ctor = NoCtor /\ prev = NoPrev
    /\ runs = 0 /\ argRuns = 0 /\ writes = 0

\* ---------------------------------------------------------- the caller
XRows == Cardinality(DOMAIN mem.xbuf)
XCols == Cardinality(DOMAIN mem.gbuf)

\* MakeArgument (lines 150-171) on the caller's tensors.  A later Argument
\* of the same caller repeats the first one's operation, epsilon,
\* reduceDims and output tensor.
MakeArgument(eps, op, yref, rd) ==
    /\ pc = "caller"
    /\ ~arg.live \/ (argRuns >= 1 /\ runs < MaxRuns)
    /\ arg.live => /\ eps = arg.epsilon /\ op = arg.op
                   /\ yref = arg.y /\ rd = arg.reduceDims
    /\ arg' = NewArgument(mem.xbuf, mem.gbuf, mem.bbuf, yref, "mbuf",
                          "sbuf", op, <<XRows, XCols>>, rd, eps)
    /\ ctor' = [x |-> mem.xbuf, gamma |-> mem.gbuf, beta |-> mem.bbuf]
    /\ supported' = "unknown"
    /\ argRuns' = 0
    /\ UNCHANGED <<mem, pc, runLocals, prev, runs, writes>>

\* a caller that keeps input and output apart
MakeArgumentPlain ==
    \E eps \in EpsVals, op \in Ops, rd \in {<<1>>, <<0>>} :
        MakeArgument(eps, op, "ybuf", rd)

\* a caller that may pass its input tensor as the output tensor too
MakeArgumentAny ==
    \E op \in Ops, yref \in {"ybuf", "xbuf"} :
        MakeArgument(CallerEps, op, yref, <<1>>)

IsSupportedArgument ==
    /\ pc = "caller"
    /\ arg.live
    /\ supported = "unknown"
    /\ supported' = IF IsSupported(arg) THEN "yes" ELSE "no"
    /\ UNCHANGED <<mem, arg, pc, runLocals, history>>

\* the caller overwrites one of its own tensors
ScribbleOver(buf) ==
    IF buf \in {"xbuf", "ybuf"}
    THEN [r \in DOMAIN mem[buf] |-> [c \in DOMAIN mem[buf][r] |-> Scribble]]
    ELSE [c \in DOMAIN mem[buf] |-> Scribble]

CallerWrite ==
    /\ pc = "caller"
    /\ arg.live
    /\ writes < MaxWrites
    /\ \E buf \in DOMAIN mem : mem' = [mem EXCEPT ![buf] = ScribbleOver(buf)]
    /\ writes' = writes + 1
    /\ UNCHANGED <<arg, supported, pc, runLocals, ctor, prev, runs, argRuns>>

Perms(k) == {p \in [Rows(k) -> Rows(k)] : \A r \in Rows(k) : \E q \in Rows(k) : p[q] = r}

\* the caller reorders the rows of its input tensor
CallerPermute ==
    /\ pc = "caller"
    /\ argRuns >= 1
    /\ writes < MaxWrites
    /\ \E p \in Perms(XRows) :
         /\ \E r \in Rows(XRows) : p[r] # r
         /\ mem' = [mem EXCEPT !.xbuf = [r \in Rows(XRows) |-> mem.xbuf[p[r]]]]
    /\ writes' = writes + 1
    /\ UNCHANGED <<arg, supported, pc, runLocals, ctor, prev, runs, argRuns>>

\* ---------------------------------------------------------- Invoker::Run
\* lines 76-80: M, N and the zero-initialised local tensors mean and var.
\* The caller runs only an Argument the validator accepted, with N >= 1.
RunBegin ==
    /\ pc = "caller"
    /\ arg.live
    /\ supported = "yes"
    /\ runs < MaxRuns
    /\ arg.lengths[2] >= 1
    /\ M' = arg.lengths[1]
    /\ N' = arg.lengths[2]
    /\ mean' = FillVec(arg.lengths[1], 0)
    /\ var' = FillVec(arg.lengths[1], 0)
    /\ m' = 0 /\ n' = 0 /\ divisor' = 0
    /\ finalised' = {}
    /\ written' = {}
    /\ pc' = "p1_outer"
    /\ UNCHANGED <<mem, arg, supported, history>>

\* mutant of P1Outer: the loop of pass 1 stops one row early
P1Outer_Short ==
    /\ pc = "p1_outer"
    /\ IF m < M - 1
       THEN /\ mean' = [mean EXCEPT ![m] = 0]
            /\ var' = [var EXCEPT ![m] = 0]
            /\ n' = 0
            /\ pc' = "p1_inner"
            /\ UNCHANGED m
       ELSE /\ m' = 0
            /\ pc' = "p2_outer"
            /\ UNCHANGED <<mean, var, n>>
    /\ UNCHANGED <<mem, arg, supported, M, N, divisor, finalised, written, history>>

\* line 82: loop test of pass 1; lines 84-85 when it holds
P1Outer ==
    /\ pc = "p1_outer"
    /\ IF m < M
       THEN /\ mean' = [mean EXCEPT ![m] = 0]
            /\ var' = [var EXCEPT ![m] = 0]
            /\ n' = 0
            /\ pc' = "p1_inner"
            /\ UNCHANGED m
       ELSE /\ m' = 0
            /\ pc' = "p2_outer"
            /\ UNCHANGED <<mean, var, n>>
    /\ UNCHANGED <<mem, arg, supported, M, N, divisor, finalised, written, history>>

\* lines 87-92: one iteration of the inner loop of pass 1, or its exit
P1Inner ==
    /\ pc = "p1_inner"
    /\ IF n < N
       THEN LET x_val == TypeConvert(XStep, 1, ArgX(m, n))
            IN /\ mean' = [mean EXCEPT ![m] = @ + x_val]
               /\ var' = [var EXCEPT ![m] = @ + Mul(x_val, x_val)]
               /\ n' = n + 1
               /\ UNCHANGED pc
       ELSE /\ pc' = "p1_final"
            /\ UNCHANGED <<mean, var, n>>
    /\ UNCHANGED <<mem, arg, supported, M, N, m, divisor, finalised, written, history>>

\* mutant of P1Final: line 95 does not divide the sum of squares by N
P1Final_NoDivide ==
    /\ pc = "p1_final"
    /\ LET mu == RoundDiv(mean[m], N)
       IN /\ mean' = [mean EXCEPT ![m] = mu]
          /\ var' = [var EXCEPT ![m] = @ - Mul(mu, mu)]
    /\ finalised' = finalised \cup {m}
    /\ m' = m + 1
    /\ pc' = "p1_outer"
    /\ UNCHANGED <<mem, arg, supported, M, N, n, divisor, written, history>>

\* lines 94-95, then ++m
P1Final ==
    /\ pc = "p1_final"
    /\ LET mu == RoundDiv(mean[m], N)
       IN /\ mean' = [mean EXCEPT ![m] = mu]
          /\ var' = [var EXCEPT ![m] = RoundDiv(@, N) - Mul(mu, mu)]
    /\ finalised' = finalised \cup {m}
    /\ m' = m + 1
    /\ pc' = "p1_outer"
    /\ UNCHANGED <<mem, arg, supported, M, N, n, divisor, written, history>>

\* mutant of P2Outer: line 101 reads var(0) for every row
P2Outer_Row0 ==
    /\ pc = "p2_outer"
    /\ IF m < M
       THEN /\ divisor' = Recip(Sqrt(var[0] + arg.epsilon))
            /\ n' = 0
            /\ pc' = "p2_inner"
       ELSE /\ pc' = "ret"
            /\ UNCHANGED <<divisor, n>>
    /\ UNCHANGED <<mem, arg, supported, M, N, m, mean, var, finalised, written, history>>

\* line 98: loop test of pass 2; lines 100-101 when it holds
P2Outer ==
    /\ pc = "p2_outer"
    /\ IF m < M
       THEN /\ divisor' = Recip(Sqrt(var[m] + arg.epsilon))
            /\ n' = 0
            /\ pc' = "p2_inner"
       ELSE /\ pc' = "ret"
            /\ UNCHANGED <<divisor, n>>
    /\ UNCHANGED <<mem, arg, supported, M, N, m, mean, var, finalised, written, history>>

\* mutant of P2Inner: the inner loop of pass 2 stops one column early
P2Inner_Short ==
    /\ pc = "p2_inner"
    /\ IF n < N - 1
       THEN /\ mem' = [mem EXCEPT ![arg.y][m][n] = TypeConvert(1, YStep, YVal(m, n))]
            /\ written' = written \cup {<<arg.y, m, n>>}
            /\ n' = n + 1
            /\ UNCHANGED pc
       ELSE /\ pc' = "p2_save"
            /\ UNCHANGED <<mem, written, n>>
    /\ UNCHANGED <<arg, supported, M, N, m, mean, var, divisor, finalised, history>>

\* mutant of P2Inner: line 111 adds to the output cell instead of storing
P2Inner_Accumulate ==
    /\ pc = "p2_inner"
    /\ IF n < N
       THEN /\ mem' = [mem EXCEPT ![arg.y][m][n] = @ + TypeConvert(1, YStep, YVal(m, n))]
            /\ written' = written \cup {<<arg.y, m, n>>}
            /\ n' = n + 1
            /\ UNCHANGED pc
       ELSE /\ pc' = "p2_save"
            /\ UNCHANGED <<mem, written, n>>
    /\ UNCHANGED <<arg, supported, M, N, m, mean, var, divisor, finalised, history>>

\* lines 103-112: one iteration of the inner loop of pass 2, or its exit
P2Inner ==
    /\ pc = "p2_inner"
    /\ IF n < N
       THEN /\ mem' = [mem EXCEPT ![arg.y][m][n] = TypeConvert(1, YStep, YVal(m, n))]
            /\ written' = written \cup {<<arg.y, m, n>>}
            /\ n' = n + 1
            /\ UNCHANGED pc
       ELSE /\ pc' = "p2_save"
            /\ UNCHANGED <<mem, written, n>>
    /\ UNCHANGED <<arg, supported, M, N, m, mean, var, divisor, finalised, history>>

\* mutant of P2Save: lines 113-114 store to row m + 1
P2Save_NextRow ==
    /\ pc = "p2_save"
    /\ mem' = [mem EXCEPT ![arg.save_mean][m + 1] = TypeConvert(1, SaveStep, mean[m]),
                          ![arg.save_inv_std][m + 1] = TypeConvert(1, SaveStep, divisor)]
    /\ written' = written \cup {<<arg.save_mean, m + 1, 0>>, <<arg.save_inv_std, m + 1, 0>>}
    /\ m' = m + 1
    /\ pc' = "p2_outer"
    /\ UNCHANGED <<arg, supported, M, N, n, mean, var, divisor, finalised, history>>

\* lines 113-114, then ++m
P2Save ==
    /\ pc = "p2_save"
    /\ mem' = [mem EXCEPT ![arg.save_mean][m] = TypeConvert(1, SaveStep, mean[m]),
                          ![arg.save_inv_std][m] = TypeConvert(1, SaveStep, divisor)]
    /\ written' = written \cup {<<arg.save_mean, m, 0>>, <<arg.save_inv_std, m, 0>>}
    /\ m' = m + 1
    /\ pc' = "p2_outer"
    /\ UNCHANGED <<arg, supported, M, N, n, mean, var, divisor, finalised, history>>

\* line 117: return to the caller, which keeps the results for comparison
RunReturn ==
    /\ pc = "ret"
    /\ pc' = "caller"
    /\ prev' = [live |-> TRUE, arg |-> arg, y |-> OutY, mean |-> OutMean,
                invstd |-> OutInvStd]
    /\ runs' = runs + 1
    /\ argRuns' = argRuns + 1
    /\ UNCHANGED <<mem, arg, supported, runLocals, ctor, writes>>

RunStep == P1Outer \/ P1Inner \/ P1Final \/ P2Outer \/ P2Inner \/ P2Save

Next ==
    \/ MakeArgumentPlain
    \/ IsSupportedArgument
    \/ RunBegin
    \/ P1Outer
    \/ P1Inner
    \/ P1Final
    \/ P2Outer
    \/ P2Inner
    \/ P2Save
    \/ RunReturn

Spec == Init /\ [][Next]_vars

\* The caller that also writes to its tensors between the calls, reorders
\* the rows of its input and may alias input and output.
InitCaller ==
    /\ \E M0 \in 0..MaxM, N0 \in 1..MaxN :
         \E x \in Matrix(M0, N0, XVals), g \in Vector(N0, GammaVals) :
              mem = [xbuf |-> x, gbuf |-> g, bbuf |-> FillVec(N0, CallerBeta),
                     ybuf |-> Fill(MaxM, MaxN, Junk),
                     mbuf |-> FillVec(MaxM, Junk),
                     sbuf |-> FillVec(MaxM, Junk)]
    /\ arg = NoArgument
    /\ supported = "unknown"
    /\ pc = "caller"
    /\ InitLocals
    /\ ctor = NoCtor /\ prev = NoPrev
    /\ runs = 0 /\ argRuns = 0 /\ writes = 0

NextCaller ==
    \/ MakeArgumentAny
    \/ IsSupportedArgument
    \/ CallerWrite
    \/ CallerPermute
    \/ RunBegin
    \/ P1Outer
    \/ P1Inner
    \/ P1Final
    \/ P2Outer
    \/ P2Inner
    \/ P2Save
    \/ RunReturn

SpecCaller == InitCaller /\ [][NextCaller]_vars


\* The validator alone, on every shape descriptor within the bounds.
SeqsUpTo(k, S) == UNION {[1..j -> S] : j \in 0..k}

InitShape ==
    /\ mem = [xbuf |-> <<>>, gbuf |-> <<>>, bbuf |-> <<>>,
              ybuf |-> Fill(MaxM, MaxN, Junk),
              mbuf |-> FillVec(MaxM, Junk),
              sbuf |-> FillVec(MaxM, Junk)]
    /\ \E l \in SeqsUpTo(MaxRank, 0..MaxAxis), d \in SeqsUpTo(MaxDims, 0..MaxAxis) :
         arg = NewArgument(<<>>, <<>>, <<>>, "ybuf", "mbuf", "sbuf",
                           "PassThrough", l, d, CallerEps)
    /\ supported = "unknown"
    /\ pc = "caller"
    /\ InitLocals
    /\ ctor = NoCtor /\ prev = NoPrev
    /\ runs = 0 /\ argRuns = 0 /\ writes = 0

NextShape == IsSupportedArgument

SpecShape == InitShape /\ [][NextShape]_vars

\* no modelled run takes the square root of a negative number or divides by 0
NoNaN == pc = "p2_outer" /\ m < M => var[m] + arg.epsilon > 0 /\ Sqrt(var[m] + arg.epsilon) > 0

\* ----------------------------------------- layer normalisation of one row
\* The formulas of lines 82-115 for a single row, written as sums over the
\* row instead of loops.
RECURSIVE SumUpTo(_, _)
SumUpTo(f, k) == IF k = 0 THEN 0 ELSE SumUpTo(f, k - 1) + f[k - 1]

RowCompute(xrow, cols) == [c \in Cols(cols) |-> TypeConvert(XStep, 1, xrow[c])]
RowMean(xrow, cols) == RoundDiv(SumUpTo(RowCompute(xrow, cols), cols), cols)
RowVar(xrow, cols) ==
    LET xs == RowCompute(xrow, cols)
        sq == [c \in Cols(cols) |-> Mul(xs[c], xs[c])]
    IN RoundDiv(SumUpTo(sq, cols), cols) - Mul(RowMean(xrow, cols), RowMean(xrow, cols))
RowDivisor(xrow, cols, eps) == Recip(Sqrt(RowVar(xrow, cols) + eps))
RowOut(xrow, gamma, beta, cols, eps, op) ==
    [c \in Cols(cols) |->
        TypeConvert(1, YStep,
            ApplyOp(op, Mul(Mul(TypeConvert(XStep, 1, xrow[c]) - RowMean(xrow, cols),
                                RowDivisor(xrow, cols, eps)),
                            TypeConvert(XStep, 1, gamma[c]))
                        + TypeConvert(XStep, 1, beta[c])))]

Pass1PCs == {"p1_outer", "p1_inner", "p1_final"}
Pass2PCs == {"p2_outer", "p2_inner", "p2_save"}
InShape == {<<arg.y, r, c>> : r \in Rows(arg.lengths[1]), c \in Cols(arg.lengths[2])}
               \cup {<<arg.save_mean, r, 0>> : r \in Rows(arg.lengths[1])}
               \cup {<<arg.save_inv_std, r, 0>> : r \in Rows(arg.lengths[1])}

\* ------------------------------------------------------------------ claims

\* C1: IsSupportedArgument answers true exactly for the descriptors with
\* rank 2 and reduced-axis list <<1>>, whatever the two extents are, and
\* false for every other descriptor.
C1_ShapeGate ==
    supported # "unknown" =>
        (supported = "yes" <=> (Len(arg.lengths) = 2 /\ arg.reduceDims = <<1>>))

C1_Witness == supported = "yes" /\ arg.lengths = <<0, 0>>

\* C2: when Run returns, savedMean[r] holds the mean of input row r and
\* savedInvStd[r] holds 1/sqrt(variance + epsilon) with the biased variance
\* sumSq/N - mean^2 of the same row, each as stored in the tensor's type.
C2_SavedStatistics ==
    pc = "ret" =>
        \A r \in Rows(arg.lengths[1]) :
            /\ mem[arg.save_mean][r] =
                   TypeConvert(1, SaveStep, RowMean(arg.x[r], arg.lengths[2]))
            /\ mem[arg.save_inv_std][r] =
                   TypeConvert(1, SaveStep,
                       RowDivisor(arg.x[r], arg.lengths[2], arg.epsilon))

C2_Witness ==
    /\ pc = "ret" /\ M = 2 /\ N = 2
    /\ arg.x[0][0] # arg.x[0][1]
    /\ arg.x[1][0] = arg.x[1][1]
    /\ mem[arg.save_mean][0] # mem[arg.save_mean][1]
    /\ mem[arg.save_inv_std][0] # mem[arg.save_inv_std][1]

\* C3: when Run returns, output[r][c] is the post-operation applied once to
\* ((x[r][c] - mean[r]) * divisor[r]) * scale[c] + shift[c], with the
\* Argument's scale and shift indexed by the column only.
C3_Output ==
    pc = "ret" =>
        \A r \in Rows(arg.lengths[1]) :
            OutY[r] = RowOut(arg.x[r], arg.gamma, arg.beta, arg.lengths[2],
                             arg.epsilon, arg.op)

C3_Witness ==
    /\ pc = "ret" /\ M = 2 /\ N = 2
    /\ arg.op = "UnarySquare"
    /\ arg.gamma[0] # arg.gamma[1]
    /\ arg.beta[0] # arg.beta[1]
    /\ OutY[0] # OutY[1]
    /\ OutY[0][0] # OutY[0][1]

\* C4: when Run returns, every cell of output, savedMean and savedInvStd
\* inside the declared shape has been stored to by this Run.
C4_AllWritten == pc = "ret" => written = InShape

C4_Witness == pc = "ret" /\ M = MaxM /\ N = MaxN /\ runs = 0

\* C5: a second Run on the same Argument leaves output, savedMean and
\* savedInvStd as the first Run left them, whatever the output tensors held
\* in between.
C5_RunTwice ==
    pc = "ret" /\ argRuns >= 1 =>
        /\ OutY = prev.y
        /\ OutMean = prev.mean
        /\ OutInvStd = prev.invstd

C5_Witness ==
    /\ pc = "ret" /\ argRuns = 1 /\ M = 2 /\ N = 2
    /\ writes = 1
    /\ mem.gbuf = ctor.gamma /\ mem.bbuf = ctor.beta
    /\ arg.y = "ybuf" /\ mem.xbuf = ctor.x

\* C6: Run commutes with every permutation of the rows: the results for the
\* permuted input are the permuted results for the original input.
C6_RowPermutation ==
    pc = "ret" /\ prev.live =>
        \A p \in Perms(arg.lengths[1]) :
            ( /\ arg.lengths = prev.arg.lengths
              /\ arg.gamma = prev.arg.gamma /\ arg.beta = prev.arg.beta
              /\ arg.epsilon = prev.arg.epsilon /\ arg.op = prev.arg.op
              /\ \A r \in Rows(arg.lengths[1]) : arg.x[r] = prev.arg.x[p[r]] )
            => \A r \in Rows(arg.lengths[1]) :
                   /\ OutY[r] = prev.y[p[r]]
                   /\ OutMean[r] = prev.mean[p[r]]
                   /\ OutInvStd[r] = prev.invstd[p[r]]

C6_Witness ==
    /\ pc = "ret" /\ prev.live /\ argRuns = 0
    /\ arg.lengths = <<2, 2>> /\ prev.arg.lengths = <<2, 2>>
    /\ arg.gamma = prev.arg.gamma /\ arg.beta = prev.arg.beta
    /\ arg.x[0] = prev.arg.x[1] /\ arg.x[1] = prev.arg.x[0]
    /\ arg.x[0] # arg.x[1]
    /\ OutMean[0] # OutMean[1]

\* C7: every step of pass 2 is taken after pass 1 has finalised mean and var
\* of all M rows, and no step of pass 1 comes after a store of pass 2.
C7_PassOrder ==
    /\ pc \in Pass2PCs \cup {"ret"} =>
          /\ finalised = Rows(M)
          /\ \A r \in Rows(M) :
                /\ mean[r] = RowMean(arg.x[r], N)
                /\ var[r] = RowVar(arg.x[r], N)
    /\ pc \in Pass1PCs => written = {}

C7_Witness == pc = "p2_inner" /\ m = 0 /\ n = 0 /\ M = 2 /\ var[1] # 0

\* C8: a step of Run changes nothing of the Argument and stores only to
\* cells of output, savedMean and savedInvStd inside the declared shape.
C8_Frame ==
    [][pc # "caller" =>
        /\ arg' = arg
        /\ \A buf \in DOMAIN mem : \A r \in DOMAIN mem[buf] :
               IF buf \in {"xbuf", "ybuf"}
               THEN \A c \in DOMAIN mem[buf][r] :
                        mem'[buf][r][c] # mem[buf][r][c] => <<buf, r, c>> \in InShape
               ELSE mem'[buf][r] # mem[buf][r] => <<buf, r, 0>> \in InShape
        /\ written' \subseteq InShape]_vars

C8_Witness ==
    /\ pc = "ret" /\ M = 1 /\ N = 1 /\ runs = 0
    /\ mem.ybuf[0][0] # Junk /\ mem.ybuf[0][1] = Junk /\ mem.ybuf[1][0] = Junk
    /\ mem.mbuf[0] # Junk /\ mem.mbuf[1] = Junk
    /\ mem.sbuf[0] # Junk /\ mem.sbuf[1] = Junk

\* C9: the scale and shift values Run computes with are the caller's values
\* converted once, from their own storage type to ComputeDataType.
C9_SingleConversion ==
    arg.live =>
        \A c \in DOMAIN arg.gamma :
            /\ TypeConvert(XStep, 1, arg.gamma[c]) = TypeConvert(GammaStep, 1, ctor.gamma[c])
            /\ TypeConvert(XStep, 1, arg.beta[c]) = TypeConvert(BetaStep, 1, ctor.beta[c])

\* C10: when Run returns, its results are those of the input, scale and
\* shift the constructor was given, also after the caller has changed its
\* tensors and when the output tensor is the caller's input tensor.
C10_ConstructionTimeValues ==
    pc = "ret" =>
        \A r \in Rows(arg.lengths[1]) :
            /\ OutY[r] = RowOut(ctor.x[r], CopyAsType(GammaStep, XStep, ctor.gamma),
                                CopyAsType(BetaStep, XStep, ctor.beta),
                                arg.lengths[2], arg.epsilon, arg.op)
            /\ OutMean[r] = TypeConvert(1, SaveStep, RowMean(ctor.x[r], arg.lengths[2]))
            /\ OutInvStd[r] = TypeConvert(1, SaveStep,
                                  RowDivisor(ctor.x[r], arg.lengths[2], arg.epsilon))

C10_Witness ==
    /\ pc = "ret" /\ M = 2 /\ N = 2
    /\ arg.y = "xbuf"
    /\ mem.gbuf # ctor.gamma
    /\ mem.xbuf # ctor.x

====
